---- MODULE Spec2Model ----
(***************************************************************************)
(* The per-frame lane pipeline of web_server.py: process_frame (the HTTP   *)
(* handler) and process_image (resize, edge/segment detection,             *)
(* classification of segments by slope, least-squares averaging per side,  *)
(* drawing, blending, metrics), with the module-level variables            *)
(* last_warped_image and last_lane_info.                                   *)
(*                                                                         *)
(* Abstractions.  A frame is a record of its width and height, one sample  *)
(* pixel value `pix` of its 640x480 resize, the segments `scene` that the  *)
(* Canny/mask/HoughLinesP chain finds in that resize, and the annotation   *)
(* layers `drawn` (lines) and `text` (labels) burnt into it.  cv2 and      *)
(* numpy are libraries: their calls are modelled by their contracts.       *)
(* Floating point: slopes are kept as exact rationals.  Where the exact    *)
(* least-squares slope is 0, a floating-point solver returns either 0.0    *)
(* or a rounding residue of magnitude about 1e-16; which one depends on    *)
(* the platform's LAPACK, so it is the variable lstsq_residue, chosen      *)
(* once and never changed.                                                 *)
(***************************************************************************)
EXTENDS Integers, Sequences, FiniteSets, TLC

\* ---------------------------------------------------------------- bounds
NumThreads == 2
MaxSegs == 3
MaxPixSegs == 1

\* ----------------------------------------------------- program constants
ResizeWidth == 640
ResizeHeight == 480
PlaceholderCurverad == 1000
LineThickness == 5

Threads == 1 .. NumThreads

None == [none |-> TRUE]

\* lane_info = {} (web_server.py:149): the dictionary with no keys
EmptyInfo == [k \in {} |-> 0]

\* ------------------------------------------------------------ the inputs
\* Segments <<x1, y1, x2, y2>> as HoughLinesP reports them, inside the
\* triangular region of interest (0,480), (640,480), (320,240).
SegL1 == <<160, 400, 200, 360>>
SegL2 == <<200, 440, 240, 400>>
SegR1 == <<440, 360, 480, 400>>
SegR2 == <<400, 400, 440, 440>>
SegVertical == <<320, 300, 320, 400>>
SegHalfPos == <<400, 400, 480, 440>>
SegHalfNeg == <<160, 440, 240, 400>>
SegShallow == <<240, 400, 320, 439>>

SegPool ==
  { SegL1, SegL2, SegR1, SegR2, SegVertical, SegHalfPos, SegHalfNeg, SegShallow }

RECURSIVE SeqsUpTo(_, _)
SeqsUpTo(S, n) ==
  IF n = 0 THEN { <<>> }
  ELSE LET shorter == SeqsUpTo(S, n - 1)
       IN  shorter \cup { Append(s, e) : s \in { q \in shorter : Len(q) = n - 1 }, e \in S }

Scenes == SeqsUpTo(SegPool, MaxSegs)

PixelVals == { 0, 2, 3, 255 }

Frame(w, h, p, sc) ==
  [ width |-> w, height |-> h, pix |-> p, scene |-> sc, drawn |-> {}, text |-> <<>> ]

\* Frames: every scene on one 640x480 frame, and every size and pixel value on
\* the scenes of at most MaxPixSegs segments.
ValidFrames ==
  { Frame(640, 480, 255, sc) : sc \in Scenes }
    \cup { Frame(d[1], d[2], p, sc) : d \in { <<640, 480>>, <<1280, 720>> },
                                     p \in PixelVals,
                                     sc \in SeqsUpTo(SegPool, MaxPixSegs) }

\* an array with no pixels: zero width or zero height
EmptyFrames == { Frame(0, 480, 0, <<>>), Frame(640, 0, 0, <<>>) }

Images == { None } \cup EmptyFrames \cup ValidFrames

\* ----------------------------------------------------------- arithmetic
Abs(n) == IF n < 0 THEN -n ELSE n

\* int(): truncation toward zero of the quotient a / b, b # 0
TruncDiv(a, b) ==
  LET q == Abs(a) \div Abs(b)
  IN  IF (a < 0) = (b < 0) THEN q ELSE -q

RECURSIVE SumSeq(_)
SumSeq(s) == IF s = <<>> THEN 0 ELSE Head(s) + SumSeq(Tail(s))

\* ------------------------------------------------------- classification
\* x2 - x1 == 0 (web_server.py:89)
IsVertical(seg) == seg[3] - seg[1] = 0

\* abs(slope) < 0.5 with slope = (y2 - y1) / (x2 - x1), x2 # x1: the float64
\* quotient of two small integers is correctly rounded and 0.5 is a float64,
\* so the comparison is the exact one, 2|dy| < |dx|.
TooHorizontalInclusive(seg) == 2 * Abs(seg[4] - seg[2]) <= Abs(seg[3] - seg[1])

TooHorizontal(seg) == 2 * Abs(seg[4] - seg[2]) < Abs(seg[3] - seg[1])

\* slope < 0 (web_server.py:98)
SlopeNegative(seg) == (seg[4] - seg[2]) * (seg[3] - seg[1]) < 0

\* the loop body of web_server.py:86-101 for one segment
SideOf(seg) ==
  IF IsVertical(seg) THEN "skip"
  ELSE IF TooHorizontal(seg) THEN "skip"
  ELSE IF SlopeNegative(seg) THEN "left"
  ELSE "right"

RECURSIVE Collect(_, _)
Collect(segs, side) ==
  IF segs = <<>> THEN <<>>
  ELSE IF SideOf(Head(segs)) = side
       THEN <<Head(segs)>> \o Collect(Tail(segs), side)
       ELSE Collect(Tail(segs), side)

\* ------------------------------------------------------------ averaging
RECURSIVE XCoords(_)
XCoords(segs) ==
  IF segs = <<>> THEN <<>>
  ELSE <<Head(segs)[1], Head(segs)[3]>> \o XCoords(Tail(segs))

RECURSIVE YCoords(_)
YCoords(segs) ==
  IF segs = <<>> THEN <<>>
  ELSE <<Head(segs)[2], Head(segs)[4]>> \o YCoords(Tail(segs))

Products(xs, ys) == [ i \in 1 .. Len(xs) |-> xs[i] * ys[i] ]

\* np.polyfit(x, y, 1), the least-squares line: slope = a / d and
\* intercept = (sy - slope * sx) / n, with d > 0 whenever two x differ.
Polyfit(xs, ys) ==
  LET n == Len(xs)
      sx == SumSeq(xs)
      sy == SumSeq(ys)
  IN  [ n |-> n, sx |-> sx, sy |-> sy,
        a |-> n * SumSeq(Products(xs, ys)) - sx * sy,
        d |-> n * SumSeq(Products(xs, xs)) - sx * sx ]

\* int((y - intercept) / slope) for slope # 0
SolveX(z, y) == TruncDiv(z.d * (z.n * y - z.sy) + z.a * z.sx, z.n * z.a)

TopYHalf(height) == height \div 2

\* int(height * 0.6)
TopY(height) == (height * 6) \div 10

average_lines_needs_two(lines, height, residue) ==
  IF Len(lines) <= 1 THEN None
  ELSE [ x1 |-> 0, y1 |-> height, x2 |-> 0, y2 |-> TopY(height), huge |-> FALSE ]

\* average_lines (web_server.py:104-130).  `residue`: the solver leaves a
\* rounding residue where the exact slope is 0; slope != 0 then holds and
\* x = int((y - intercept) / residue) is of magnitude 1e15 or more, outside
\* the range of a C int: `huge`, its digits not represented.
average_lines(lines, height, residue) ==
  IF Len(lines) = 0 THEN None
  ELSE LET z == Polyfit(XCoords(lines), YCoords(lines))
           y1 == height
           y2 == TopY(height)
       IN  IF z.a = 0
           THEN [ x1 |-> 0, y1 |-> y1, x2 |-> 0, y2 |-> y2, huge |-> residue ]
           ELSE [ x1 |-> SolveX(z, y1), y1 |-> y1, x2 |-> SolveX(z, y2), y2 |-> y2,
                  huge |-> FALSE ]

\* ------------------------------------------------- drawing and blending
LeftColor == <<0, 0, 255>>
RightColor == <<0, 255, 0>>

LineNeverRaises(line) == FALSE

\* cv2.line(line_image, (x1, y1), (x2, y2), color, 5): the binding converts
\* each coordinate to a C int and raises when one does not fit.
LineRaises(line) == line.huge

Stroke(line, color) ==
  [ x1 |-> line.x1, y1 |-> line.y1, x2 |-> line.x2, y2 |-> line.y2,
    color |-> color, thickness |-> LineThickness ]

BlendKeep(p) == p

\* saturate_cast<uchar>(0.8 * p + 1 * 0 + 0): round to nearest (0.8 * p is
\* never a tie), at most 204
Blend(p) == (8 * p + 5) \div 10

\* cv2.addWeighted(image, 0.8, line_image, 1, 0) (web_server.py:146)
AddWeighted(img, line_image) ==
  [ img EXCEPT !.pix = Blend(img.pix), !.drawn = line_image ]

\* ---------------------------------------------------------------- metrics
\* deviation = (width / 2 - (left_x + right_x) / 2) * 3.7 / width, as the
\* rational num / den with den > 0 (web_server.py:159-161)
Deviation(left_x, right_x, width) ==
  [ num |-> (width - (left_x + right_x)) * 37, den |-> 20 * width ]

DirectionSwapped(deviation) == IF deviation.num < 0 THEN "right" ELSE "left"

\* "left" if deviation < 0 else "right" (web_server.py:173)
Direction(deviation) == IF deviation.num < 0 THEN "left" ELSE "right"

LaneInfoLeftOnly(left_line, right_line, width) ==
  IF left_line # None
  THEN [ left_fit |-> <<0, 0, 0>>, right_fit |-> <<0, 0, 0>>,
         left_curverad |-> PlaceholderCurverad,
         right_curverad |-> PlaceholderCurverad,
         deviation |-> Deviation(left_line.x1, left_line.x1, width) ]
  ELSE EmptyInfo

LaneInfo(left_line, right_line, width) ==
  IF left_line # None /\ right_line # None
  THEN [ left_fit |-> <<0, 0, 0>>, right_fit |-> <<0, 0, 0>>,
         left_curverad |-> PlaceholderCurverad,
         right_curverad |-> PlaceholderCurverad,
         deviation |-> Deviation(left_line.x1, right_line.x1, width) ]
  ELSE EmptyInfo

\* the two cv2.putText calls (web_server.py:172-174); the digits of
\* round(abs(deviation), 3) are not represented
PutText(result, lane_info) ==
  IF lane_info = EmptyInfo THEN result
  ELSE [ result EXCEPT !.text =
           << [ label |-> "Radius of curvature", value |-> lane_info.left_curverad ],
              [ label |-> "Vehicle is", direction |-> Direction(lane_info.deviation) ] >> ]

\* ------------------------------------------------------ library contracts
\* cv2.resize raises on None and on an array with no pixels
Malformed(img) == img = None \/ img.width = 0 \/ img.height = 0

ResizeKeepsSize(img) == img

\* cv2.resize(image, (640, 480)) (web_server.py:54)
Resize(img) == [ img EXCEPT !.width = ResizeWidth, !.height = ResizeHeight ]

\* cv2.HoughLinesP on the masked edges: None when nothing is found, else the
\* array of the segments
HoughLinesP(img) == IF img.scene = <<>> THEN None ELSE [ segs |-> img.scene ]

FallbackNoFrame(img) == [ frame |-> None, lane_info |-> EmptyInfo ]

\* return image, {} (web_server.py:180)
Fallback(img) == [ frame |-> img, lane_info |-> EmptyInfo ]

\* cv2.imencode('.jpg', result_image) raises on None and on an empty array
EncodeRaises(img) == Malformed(img)

GlobalStore(g, value) == value

\* the assignments process_frame and process_image make to the variables
\* they declare global (web_server.py:22, 50): none
GlobalAfterCall(g, value) == g

\* -------------------------------------------------------------- the state
VARIABLES
  last_warped_image,  \* module-level, web_server.py:13
  last_lane_info,     \* module-level, web_server.py:14
  lstsq_residue,      \* the platform's rounding of an exactly zero slope
  pc,                 \* per thread: where its call stands
  via,                \* per thread: "http" (process_frame) or "direct"
  arg,                \* per thread: the frame process_image was given
  image,              \* per thread: process_image's local image
  lines,              \* per thread: HoughLinesP's result
  left_lines, right_lines,
  left_line, right_line,
  line_image,         \* per thread: the strokes drawn on line_image
  exc,                \* per thread: the exception process_image caught
  ret,                \* per thread: what process_image returned
  response            \* per thread: what process_frame answered

vars ==
  << last_warped_image, last_lane_info, lstsq_residue, pc, via, arg, image, lines,
     left_lines, right_lines, left_line, right_line, line_image, exc, ret, response >>

globals == << last_warped_image, last_lane_info, lstsq_residue >>
locals == << lines, left_lines, right_lines, left_line, right_line, line_image >>

Init ==
  /\ last_warped_image = None
  /\ last_lane_info = None
  /\ lstsq_residue \in BOOLEAN
  /\ pc = [ t \in Threads |-> "idle" ]
  /\ via = [ t \in Threads |-> "none" ]
  /\ arg = [ t \in Threads |-> None ]
  /\ image = [ t \in Threads |-> None ]
  /\ lines = [ t \in Threads |-> None ]
  /\ left_lines = [ t \in Threads |-> <<>> ]
  /\ right_lines = [ t \in Threads |-> <<>> ]
  /\ left_line = [ t \in Threads |-> None ]
  /\ right_line = [ t \in Threads |-> None ]
  /\ line_image = [ t \in Threads |-> {} ]
  /\ exc = [ t \in Threads |-> "none" ]
  /\ ret = [ t \in Threads |-> None ]
  /\ response = [ t \in Threads |-> None ]

\* the values the variables take: the module-level pair of web_server.py:13-14
\* and, per thread, the locals of process_frame and process_image
TypeOK ==
  /\ lstsq_residue \in BOOLEAN
  /\ \A t \in Threads :
       /\ pc[t] \in { "idle", "resize", "detect", "classify", "average", "draw", "combine",
                      "returned", "responded" }
       /\ via[t] \in { "none", "http", "direct" }
       /\ exc[t] \in { "none", "resize", "left", "right" }
       /\ arg[t] \in Images
       /\ lines[t] = None \/ lines[t].segs \in Scenes
       /\ left_lines[t] \in Scenes /\ right_lines[t] \in Scenes
       /\ left_line[t] = None \/ left_line[t].y1 = ResizeHeight
       /\ right_line[t] = None \/ right_line[t].y1 = ResizeHeight
       /\ ret[t] = None \/ DOMAIN ret[t] = { "frame", "lane_info" }
       /\ response[t] = None \/ response[t].status \in { 200, 500 }

\* ------------------------------------------------------------ the requests
\* A request either carries no decodable data URL (data['image'], the split
\* or b64decode raises), or bytes that cv2.imdecode turns into None or into
\* a frame with pixels.
BadRequest == [ bad |-> TRUE ]
Requests == { BadRequest } \cup { [ decoded |-> f ] : f \in { None } \cup ValidFrames }

ErrorResponse(what) == [ status |-> 500, error |-> what ]

OkResponse(img, lane_info) ==
  [ status |-> 200, image |-> [ jpeg |-> img ], lanes |-> lane_info ]

\* ------------------------------------------------------------- the actions
\* process_frame up to its call of process_image (web_server.py:21-35)
ProcessFrame(t, req) ==
  /\ pc[t] = "idle"
  /\ via' = [ via EXCEPT ![t] = "http" ]
  /\ IF req = BadRequest
     THEN /\ response' = [ response EXCEPT ![t] = ErrorResponse("request") ]
          /\ pc' = [ pc EXCEPT ![t] = "responded" ]
          /\ UNCHANGED << arg, image >>
     ELSE /\ arg' = [ arg EXCEPT ![t] = req.decoded ]
          /\ image' = [ image EXCEPT ![t] = req.decoded ]
          /\ pc' = [ pc EXCEPT ![t] = "resize" ]
          /\ UNCHANGED response
  /\ UNCHANGED << globals, locals, exc, ret >>

\* process_image called on a frame by any other caller
CallProcessImage(t, img) ==
  /\ pc[t] = "idle"
  /\ via' = [ via EXCEPT ![t] = "direct" ]
  /\ arg' = [ arg EXCEPT ![t] = img ]
  /\ image' = [ image EXCEPT ![t] = img ]
  /\ pc' = [ pc EXCEPT ![t] = "resize" ]
  /\ UNCHANGED << globals, locals, exc, ret, response >>

\* web_server.py:52-54, and 177-180 when cv2.resize raises
ResizeStep(t) ==
  /\ pc[t] = "resize"
  /\ IF Malformed(image[t])
     THEN /\ exc' = [ exc EXCEPT ![t] = "resize" ]
          /\ ret' = [ ret EXCEPT ![t] = Fallback(image[t]) ]
          /\ pc' = [ pc EXCEPT ![t] = "returned" ]
          /\ UNCHANGED image
     ELSE /\ image' = [ image EXCEPT ![t] = Resize(image[t]) ]
          /\ pc' = [ pc EXCEPT ![t] = "detect" ]
          /\ UNCHANGED << exc, ret >>
  /\ UNCHANGED << globals, locals, via, arg, response >>

\* web_server.py:58-83: grayscale, blur, Canny, mask, HoughLinesP, line_image
DetectStep(t) ==
  /\ pc[t] = "detect"
  /\ lines' = [ lines EXCEPT ![t] = HoughLinesP(image[t]) ]
  /\ line_image' = [ line_image EXCEPT ![t] = {} ]
  /\ left_lines' = [ left_lines EXCEPT ![t] = <<>> ]
  /\ right_lines' = [ right_lines EXCEPT ![t] = <<>> ]
  /\ pc' = [ pc EXCEPT ![t] = "classify" ]
  /\ UNCHANGED << globals, via, arg, image, left_line, right_line, exc, ret, response >>

\* web_server.py:85-101
ClassifyStep(t) ==
  /\ pc[t] = "classify"
  /\ IF lines[t] # None
     THEN /\ left_lines' = [ left_lines EXCEPT ![t] = Collect(lines[t].segs, "left") ]
          /\ right_lines' = [ right_lines EXCEPT ![t] = Collect(lines[t].segs, "right") ]
     ELSE UNCHANGED << left_lines, right_lines >>
  /\ pc' = [ pc EXCEPT ![t] = "average" ]
  /\ UNCHANGED << globals, via, arg, image, lines, left_line, right_line, line_image,
                  exc, ret, response >>

\* web_server.py:133-134
AverageStep(t) ==
  /\ pc[t] = "average"
  /\ left_line' = [ left_line EXCEPT ![t] =
                      average_lines(left_lines[t], image[t].height, lstsq_residue) ]
  /\ right_line' = [ right_line EXCEPT ![t] =
                       average_lines(right_lines[t], image[t].height, lstsq_residue) ]
  /\ pc' = [ pc EXCEPT ![t] = "draw" ]
  /\ UNCHANGED << globals, via, arg, image, lines, left_lines, right_lines, line_image,
                  exc, ret, response >>

\* web_server.py:137-143, and 177-180 when a cv2.line raises
DrawStep(t) ==
  /\ pc[t] = "draw"
  /\ LET l == left_line[t]
         r == right_line[t]
         afterLeft == IF l # None THEN { Stroke(l, LeftColor) } ELSE {}
         afterRight == IF r # None THEN afterLeft \cup { Stroke(r, RightColor) }
                       ELSE afterLeft
     IN  IF l # None /\ LineRaises(l)
         THEN /\ exc' = [ exc EXCEPT ![t] = "left" ]
              /\ ret' = [ ret EXCEPT ![t] = Fallback(image[t]) ]
              /\ pc' = [ pc EXCEPT ![t] = "returned" ]
              /\ UNCHANGED line_image
         ELSE IF r # None /\ LineRaises(r)
         THEN /\ exc' = [ exc EXCEPT ![t] = "right" ]
              /\ ret' = [ ret EXCEPT ![t] = Fallback(image[t]) ]
              /\ pc' = [ pc EXCEPT ![t] = "returned" ]
              /\ line_image' = [ line_image EXCEPT ![t] = afterLeft ]
         ELSE /\ line_image' = [ line_image EXCEPT ![t] = afterRight ]
              /\ pc' = [ pc EXCEPT ![t] = "combine" ]
              /\ UNCHANGED << exc, ret >>
  /\ UNCHANGED << globals, via, arg, image, lines, left_lines, right_lines, left_line,
                  right_line, response >>

\* web_server.py:146-176
CombineStep(t) ==
  /\ pc[t] = "combine"
  /\ LET result == AddWeighted(image[t], line_image[t])
         lane_info == LaneInfo(left_line[t], right_line[t], image[t].width)
     IN  /\ ret' = [ ret EXCEPT ![t] =
                       [ frame |-> PutText(result, lane_info), lane_info |-> lane_info ] ]
         /\ last_lane_info' = GlobalAfterCall(last_lane_info, lane_info)
         /\ last_warped_image' = GlobalAfterCall(last_warped_image, result)
  /\ pc' = [ pc EXCEPT ![t] = "returned" ]
  /\ UNCHANGED << lstsq_residue, locals, via, arg, image, exc, response >>

\* process_frame after process_image returned (web_server.py:37-47)
RespondStep(t) ==
  /\ pc[t] = "returned"
  /\ via[t] = "http"
  /\ response' = [ response EXCEPT ![t] =
                     IF EncodeRaises(ret[t].frame) THEN ErrorResponse("imencode")
                     ELSE OkResponse(ret[t].frame, ret[t].lane_info) ]
  /\ pc' = [ pc EXCEPT ![t] = "responded" ]
  /\ UNCHANGED << globals, locals, via, arg, image, exc, ret >>

\* the call is over; its locals are gone
FinishStep(t) ==
  /\ \/ pc[t] = "responded"
     \/ pc[t] = "returned" /\ via[t] = "direct"
  /\ pc' = [ pc EXCEPT ![t] = "idle" ]
  /\ via' = [ via EXCEPT ![t] = "none" ]
  /\ arg' = [ arg EXCEPT ![t] = None ]
  /\ image' = [ image EXCEPT ![t] = None ]
  /\ lines' = [ lines EXCEPT ![t] = None ]
  /\ left_lines' = [ left_lines EXCEPT ![t] = <<>> ]
  /\ right_lines' = [ right_lines EXCEPT ![t] = <<>> ]
  /\ left_line' = [ left_line EXCEPT ![t] = None ]
  /\ right_line' = [ right_line EXCEPT ![t] = None ]
  /\ line_image' = [ line_image EXCEPT ![t] = {} ]
  /\ exc' = [ exc EXCEPT ![t] = "none" ]
  /\ ret' = [ ret EXCEPT ![t] = None ]
  /\ response' = [ response EXCEPT ![t] = None ]
  /\ UNCHANGED globals

Step(t) ==
  \/ ResizeStep(t)
  \/ DetectStep(t)
  \/ ClassifyStep(t)
  \/ AverageStep(t)
  \/ DrawStep(t)
  \/ CombineStep(t)
  \/ RespondStep(t)
  \/ FinishStep(t)

AllIdle == \A t \in Threads : pc[t] = "idle"

\* Calls served one at a time, on every frame and request of the bounds.
Next ==
  \/ AllIdle /\ \E t \in Threads, req \in Requests : ProcessFrame(t, req)
  \/ AllIdle /\ \E t \in Threads, img \in Images : CallProcessImage(t, img)
  \/ \E t \in Threads : Step(t)

Spec == Init /\ [][Next]_vars

\* Calls of several threads interleaved (app.run serves each request on a
\* thread of its own), on a few frames.
ThreadedFrames ==
  { Frame(640, 480, 255, <<SegL2, SegR1>>),
    Frame(1280, 720, 3, <<>>),
    Frame(640, 480, 255, <<SegL1, SegL2, SegR2>>) }

ThreadedRequests == { BadRequest } \cup { [ decoded |-> f ] : f \in { None } \cup ThreadedFrames }

NextThreaded ==
  \/ \E t \in Threads, req \in ThreadedRequests : ProcessFrame(t, req)
  \/ \E t \in Threads, img \in { None } \cup ThreadedFrames : CallProcessImage(t, img)
  \/ \E t \in Threads : Step(t)

SpecThreaded == Init /\ [][NextThreaded]_vars

\* ------------------------------------------------------------- the claims
Range(f) == { f[i] : i \in DOMAIN f }

\* process_image has returned in thread t (its caller holds ret[t])
Returned(t) == pc[t] \in { "returned", "responded" } /\ ret[t] # None

\* thread t is past the classification loop
Classified(t) ==
  \/ pc[t] \in { "average", "draw", "combine" }
  \/ Returned(t) /\ exc[t] # "resize"

\* thread t is past the two calls of average_lines
Averaged(t) ==
  \/ pc[t] \in { "draw", "combine" }
  \/ Returned(t) /\ exc[t] # "resize"

HasStroke(frame, color) ==
  frame # None /\ \E s \in frame.drawn : s.color = color

\* C1: after the classification loop a vertical segment and a segment with
\* |slope| < 0.5 are in neither list, a segment with |slope| = 0.5 is kept,
\* left_lines holds only slopes <= -0.5 and right_lines only slopes >= 0.5,
\* and every kept segment is in exactly one list, once per occurrence.
C1_Classification ==
  \A t \in Threads :
    (Classified(t) /\ lines[t] # None) =>
      LET segs == lines[t].segs
          dx(s) == s[3] - s[1]
          dy(s) == s[4] - s[2]
          kept(s) == dx(s) # 0 /\ 2 * Abs(dy(s)) >= Abs(dx(s))
          inL(s) == s \in Range(left_lines[t])
          inR(s) == s \in Range(right_lines[t])
      IN  /\ \A i \in 1 .. Len(segs) :
               LET s == segs[i]
               IN  /\ dx(s) = 0 => ~inL(s) /\ ~inR(s)
                   /\ (dx(s) # 0 /\ 2 * Abs(dy(s)) < Abs(dx(s))) => ~inL(s) /\ ~inR(s)
                   /\ (dx(s) # 0 /\ 2 * Abs(dy(s)) = Abs(dx(s))) => inL(s) \/ inR(s)
                   /\ kept(s) => (inL(s) # inR(s))
          /\ \A s \in Range(left_lines[t]) :
               dx(s) # 0 /\ dy(s) * dx(s) < 0 /\ 2 * Abs(dy(s)) >= Abs(dx(s))
          /\ \A s \in Range(right_lines[t]) :
               dx(s) # 0 /\ dy(s) * dx(s) > 0 /\ 2 * Abs(dy(s)) >= Abs(dx(s))
          /\ Len(left_lines[t]) + Len(right_lines[t])
               = Cardinality({ i \in 1 .. Len(segs) : kept(segs[i]) })

C1_Witness ==
  \E t \in Threads :
    /\ pc[t] = "average"
    /\ lines[t] # None
    /\ lines[t].segs = << SegVertical, SegHalfPos, SegShallow >>
    /\ right_lines[t] = << SegHalfPos >>
    /\ left_lines[t] = <<>>

C3_SameSizeAsGiven ==
  \A t \in Threads :
    (Returned(t) /\ ~Malformed(arg[t]) /\ lines[t] = None) =>
      /\ exc[t] = "none"
      /\ ret[t].frame.width = arg[t].width
      /\ ret[t].frame.height = arg[t].height

\* C3, amended: on a frame with no detected segment process_image raises
\* nothing and returns a 640x480 frame, whatever the size of the frame given.
C3_ResizedSize ==
  \A t \in Threads :
    (Returned(t) /\ ~Malformed(arg[t]) /\ lines[t] = None) =>
      /\ exc[t] = "none"
      /\ ret[t].frame # None
      /\ ret[t].frame.width = 640
      /\ ret[t].frame.height = 480

C3_Witness ==
  \E t \in Threads :
    /\ Returned(t)
    /\ ~Malformed(arg[t])
    /\ lines[t] = None
    /\ arg[t].width = 1280
    /\ ret[t].frame.width = 640

\* C4 as stated: with both candidate lists empty the returned frame is the
\* resized input frame, pixel for pixel, with empty metrics.
C4_FrameUnchanged ==
  \A t \in Threads :
    (Returned(t) /\ Classified(t) /\ left_lines[t] = <<>> /\ right_lines[t] = <<>>) =>
      /\ exc[t] = "none"
      /\ ret[t].lane_info = EmptyInfo
      /\ ret[t].frame = image[t]

\* C4, amended: with both candidate lists empty process_image raises nothing
\* and returns empty metrics and a frame without lines or text whose pixels
\* are those of the resized input scaled by 0.8 and rounded; a pixel keeps its
\* value only where that value is 0, 1 or 2.
C4_FrameDimmed ==
  \A t \in Threads :
    (Returned(t) /\ Classified(t) /\ left_lines[t] = <<>> /\ right_lines[t] = <<>>) =>
      LET out == ret[t].frame
          p == image[t].pix
      IN  /\ exc[t] = "none"
          /\ ret[t].lane_info = EmptyInfo
          /\ out.drawn = {} /\ out.text = <<>>
          /\ out.width = image[t].width /\ out.height = image[t].height
          /\ 10 * out.pix - 5 <= 8 * p /\ 8 * p < 10 * out.pix + 5
          /\ (out.pix = p) <=> (p <= 2)

C4_Witness ==
  \E t \in Threads :
    /\ Returned(t)
    /\ Classified(t)
    /\ lines[t] # None
    /\ left_lines[t] = <<>> /\ right_lines[t] = <<>>
    /\ image[t].pix = 255
    /\ ret[t].frame.pix = 204

\* C5: with both lane lines present, a lane centre left of the vehicle centre
\* gives a deviation > 0 and the label "right", a lane centre right of it a
\* deviation < 0 and the label "left".
C5_DeviationSign ==
  \A t \in Threads :
    (Returned(t) /\ ret[t].lane_info # EmptyInfo) =>
      LET twice_lane_center == left_line[t].x1 + right_line[t].x1
          twice_vehicle_center == image[t].width
          deviation == ret[t].lane_info.deviation
          label == ret[t].frame.text[2].direction
      IN  /\ deviation.den > 0
          /\ twice_lane_center < twice_vehicle_center =>
               (deviation.num > 0 /\ label = "right")
          /\ twice_lane_center > twice_vehicle_center =>
               (deviation.num < 0 /\ label = "left")

C5_Witness ==
  \E t \in Threads :
    /\ Returned(t)
    /\ ret[t].lane_info # EmptyInfo
    /\ left_line[t].x1 + right_line[t].x1 > image[t].width
    /\ ret[t].frame.text[2].direction = "left"

\* C6: average_lines gives a lane line for a side exactly when that side's
\* candidate list is not empty; when every detected segment has slope >= 0
\* the left list is empty and neither left_line nor the returned frame has a
\* left line; and no exception is ever caught because of an empty side.
C6_LineIffCandidates ==
  \A t \in Threads :
    Averaged(t) =>
      /\ (left_line[t] # None) <=> (left_lines[t] # <<>>)
      /\ (right_line[t] # None) <=> (right_lines[t] # <<>>)
      /\ (lines[t] # None
            /\ \A s \in Range(lines[t].segs) :
                 s[3] # s[1] /\ (s[4] - s[2]) * (s[3] - s[1]) >= 0) =>
           /\ left_lines[t] = <<>>
           /\ left_line[t] = None
           /\ Returned(t) => ~HasStroke(ret[t].frame, LeftColor)
      /\ exc[t] = "left" => left_lines[t] # <<>>
      /\ exc[t] = "right" => right_lines[t] # <<>>
      /\ (left_lines[t] = <<>> /\ right_lines[t] = <<>>) => exc[t] = "none"

C6_Witness ==
  \E t \in Threads :
    /\ Returned(t)
    /\ exc[t] = "none"
    /\ lines[t] # None
    /\ lines[t].segs = << SegR2, SegHalfPos >>
    /\ left_line[t] = None
    /\ right_line[t] # None

\* C7 as stated: a malformed frame makes the call fail with nothing returned,
\* and nothing but a malformed frame makes process_image take its error path.
C7_ErrorPropagated ==
  \A t \in Threads :
    /\ (pc[t] = "returned" /\ Malformed(arg[t])) => ret[t] = None
    /\ exc[t] # "none" => Malformed(arg[t])

\* C7, amended: process_image never raises; on a malformed frame cv2.resize
\* raises, the exception is caught, and the frame that was given comes back
\* with empty metrics.  The error reaches a caller only through process_frame,
\* which answers 500 with an error and neither image nor metrics exactly when
\* the request carried no frame with pixels.
C7_ErrorSwallowed ==
  \A t \in Threads :
    /\ pc[t] \in { "idle", "resize", "detect", "classify", "average", "draw", "combine",
                   "returned", "responded" }
    /\ (Returned(t) /\ Malformed(arg[t])) =>
         /\ exc[t] = "resize"
         /\ ret[t].frame = arg[t]
         /\ ret[t].lane_info = EmptyInfo
    /\ (Returned(t) /\ ~Malformed(arg[t])) => (ret[t].frame # None /\ exc[t] # "resize")
    /\ pc[t] = "responded" =>
         /\ (response[t].status = 500) <=> (ret[t] = None \/ Malformed(arg[t]))
         /\ response[t].status = 500 => DOMAIN response[t] = { "status", "error" }
         /\ response[t].status # 500 =>
              (response[t].image.jpeg = ret[t].frame /\ response[t].lanes = ret[t].lane_info)

C7_Witness ==
  \E t \in Threads :
    /\ pc[t] = "responded"
    /\ Returned(t)
    /\ arg[t] = None
    /\ ret[t].frame = None
    /\ response[t].status = 500

\* C8 as stated: when drawing or fitting one side fails, the other side's
\* lane line, if it was fitted, is still drawn on the returned frame.
C8_OtherSideSurvives ==
  \A t \in Threads :
    Returned(t) =>
      /\ (exc[t] = "left" /\ right_line[t] # None /\ ~LineRaises(right_line[t])) =>
           HasStroke(ret[t].frame, RightColor)
      /\ (exc[t] = "right" /\ left_line[t] # None /\ ~LineRaises(left_line[t])) =>
           HasStroke(ret[t].frame, LeftColor)

\* C8, amended: when a cv2.line raises because a fitted line's coordinates
\* do not fit a C int, process_image catches the exception and falls back as
\* a whole: it returns the resized input frame with no lane line at all, not
\* even the other side's fitted line, and empty metrics; and a fitted line
\* that cannot be drawn always ends the call this way.
C8_WholeFallback ==
  \A t \in Threads :
    Returned(t) =>
      /\ exc[t] \in { "left", "right" } =>
           /\ ret[t].frame = image[t]
           /\ ret[t].frame.drawn = {} /\ ret[t].frame.text = <<>>
           /\ ret[t].frame.pix = image[t].pix
           /\ ret[t].lane_info = EmptyInfo
      /\ (left_line[t] # None /\ left_line[t].huge) => exc[t] = "left"
      /\ (right_line[t] # None /\ right_line[t].huge
            /\ ~(left_line[t] # None /\ left_line[t].huge)) => exc[t] = "right"

C8_Witness ==
  \E t \in Threads :
    /\ Returned(t)
    /\ exc[t] = "left"
    /\ left_lines[t] = << SegL1, SegL2 >>
    /\ right_line[t] # None /\ ~right_line[t].huge
    /\ ~HasStroke(ret[t].frame, RightColor)
    /\ ret[t].lane_info = EmptyInfo

\* C9: every lane line average_lines returns runs from y = frame height to
\* y = int(0.6 * frame height) (480 and 288), also where the fitted slope is
\* exactly 0 and both x are set to 0; two lines present together span the
\* same vertical range.
C9_VerticalRange ==
  \A t \in Threads :
    Averaged(t) =>
      LET h == image[t].height
          ok(line, cands) ==
            line # None =>
              /\ line.y1 = h
              /\ 10 * line.y2 <= 6 * h /\ 6 * h < 10 * (line.y2 + 1)
              /\ line.y1 = 480 /\ line.y2 = 288
              /\ (Polyfit(XCoords(cands), YCoords(cands)).a = 0 /\ ~lstsq_residue) =>
                   (line.x1 = 0 /\ line.x2 = 0 /\ ~line.huge)
      IN  /\ ok(left_line[t], left_lines[t])
          /\ ok(right_line[t], right_lines[t])
          /\ (left_line[t] # None /\ right_line[t] # None) =>
               /\ left_line[t].y1 = right_line[t].y1
               /\ left_line[t].y2 = right_line[t].y2

C9_Witness ==
  \E t \in Threads :
    /\ pc[t] = "draw"
    /\ left_lines[t] = << SegL1, SegL2 >>
    /\ left_line[t] # None /\ right_line[t] # None
    /\ left_line[t].x1 = 0 /\ left_line[t].x2 = 0 /\ ~left_line[t].huge
    /\ left_line[t].y2 = 288 /\ right_line[t].y2 = 288
    /\ right_line[t].x1 # 0

\* C10: whatever calls ran or run, interleaved in any way, last_warped_image
\* and last_lane_info stay None, and two calls given the same frame return
\* the same frame and metrics.
C10_Stateless ==
  /\ last_warped_image = None
  /\ last_lane_info = None
  /\ \A t, u \in Threads :
       (Returned(t) /\ Returned(u) /\ arg[t] = arg[u]) => ret[t] = ret[u]

C10_Witness ==
  \E t, u \in Threads :
    /\ t # u
    /\ pc[t] = "responded" /\ pc[u] = "returned"
    /\ Returned(t) /\ Returned(u)
    /\ arg[t] = arg[u]
    /\ ret[t].lane_info # EmptyInfo
    /\ last_lane_info = None

====
